---- MODULE Spec2Model ----
(***************************************************************************)
(* Retrieval core of ll-ai-assist: the markdown ingestion pipeline         *)
(* (src/ingest_docs.py), its SQLite vector store, the word-window chunker  *)
(* and the semantic searcher (src/semantic_search.py), and the question    *)
(* answering of src/rag_systems/gemma_rag_system.py on top of them.        *)
(*                                                                         *)
(* The specifications of the module:                                       *)
(*   Spec        runs of DocumentIngestion.load_markdown_to_db against one *)
(*               store, step by step, with per-step failures;              *)
(*   SpecChunk   DocumentIngestion.chunk_text on bounded inputs;           *)
(*   SpecSearch  SemanticSearcher.search on bounded stores and inputs;     *)
(*   SpecBlob    SemanticSearcher.search on stores whose embedding blobs   *)
(*               have any length;                                          *)
(*   SpecAnswer  GemmaRAGSystem.answer_question, step by step, with a      *)
(*               failing search and a failing generator;                   *)
(*   SpecConn    the store connection of search, load_markdown_to_db and   *)
(*               get_statistics across their statements;                   *)
(*   SpecNames   SemanticSearcher.search on stores whose documents lie in  *)
(*               several folders and may share a base file name;           *)
(*   SpecLoad    EmbeddingManager.load_model, step by step, with failing   *)
(*               imports, constructors and sample encodings;               *)
(*   SpecRace    two processes running load_markdown_to_db against the     *)
(*               same store, statement by statement.                       *)
(***************************************************************************)
EXTENDS Integers, Sequences, FiniteSets, TLC

\* ------------------------------------------------------------------ bounds
NumFiles == 3       \* markdown paths under the docs root: 1 < 2 < ... in sorted order
MaxVersion == 2     \* distinct non-blank texts a file can hold
MaxRuns == 2        \* calls of load_markdown_to_db
MaxEdits == 1       \* changes of the docs folder between the calls
MaxFaults == 1      \* failures the environment injects into one call
MaxWords == 45      \* SpecChunk: words of the text given to chunk_text
MaxChunkSize == 22  \* SpecChunk: chunk_size given to chunk_text
MaxRows == 3        \* SpecSearch: chunk rows in the store
MaxTopK == 2        \* SpecSearch: top_k
MaxBlobRows == 2    \* SpecBlob: chunk rows in the store
MaxAnswerRows == 2  \* SpecAnswer: chunk rows in the store
MaxHistory == 4     \* SpecAnswer: entries of conversation_history
MaxCalls == 4       \* SpecConn: operations called

\* ------------------------------------------------------- program constants
CHUNK_SIZE == 1000
TOP_K_RETRIEVAL == 5

\* sqlite3.connect opens the store with SQLite's default PRAGMA foreign_keys
\* (off); no statement of the program turns it on.
ForeignKeysEnforced == FALSE

Paths == 1..NumFiles

\* A file of the docs folder: <<>> when the path does not exist, <<0>> when the
\* file is blank (empty after strip), <<v>> when it holds text number v.
FileStates == {<<>>} \cup {<<v>> : v \in 0..MaxVersion}

\* len(text.split()) of text number v: text 1 fits one window of CHUNK_SIZE words,
\* every further text is 1000 words longer
WordsOf(v) == IF v = 0 THEN 0 ELSE 900 + 1000 * (v - 1)

Min(a, b) == IF a < b THEN a ELSE b
Max(a, b) == IF a > b THEN a ELSE b

\* ------------------------------------------------------------- chunk_text
\* A chunk is the word range <<lo, hi>> = words[lo:hi] of the text.
\* AtEnd never true: the loop runs until range() is exhausted
AtEndNever(W, chunk_size, i) == FALSE

\* `if i + chunk_size >= len(words)`: the window at i reaches the last word
AtEnd(W, chunk_size, i) == i + chunk_size >= W

\* The for loop of chunk_text from start index i on.
RECURSIVE ChunkLoop(_, _, _, _)
ChunkLoop(W, chunk_size, step, i) ==
    IF i >= W THEN <<>>                                  \* range(0, len(words), step) exhausted
    ELSE LET chunk == <<i, Min(i + chunk_size, W)>>      \* words[i:i + chunk_size]
             emit  == IF chunk[2] > chunk[1] THEN <<chunk>> ELSE <<>>   \* if chunk.strip()
         IN  IF AtEnd(W, chunk_size, i)
             THEN emit                                   \* break
             ELSE emit \o ChunkLoop(W, chunk_size, step, i + step)

\* ChunkStep with the overlap added instead of subtracted
ChunkStepPastWindow(chunk_size) == chunk_size + Max(1, chunk_size \div 10)

\* step = chunk_size - overlap
ChunkStep(chunk_size) == chunk_size - Max(1, chunk_size \div 10)

\* chunk_text(text, chunk_size) for a text of W words. range() raises ValueError
\* for a zero step; a negative step yields no index. "raised" tells the former.
\* The fallback [text] is the whole text, the range <<0, W>>.
chunk_text(W, chunk_size) ==
    LET step == ChunkStep(chunk_size)
    IN  IF step = 0 THEN [raised |-> TRUE, chunks |-> <<>>]
        ELSE LET chunks == IF step < 0 THEN <<>> ELSE ChunkLoop(W, chunk_size, step, 0)
             IN  [raised |-> FALSE,
                  chunks |-> IF chunks # <<>> THEN chunks ELSE << <<0, W>> >>]


\* ------------------------------------------------------------------ state
VARIABLES
    fs,          \* the docs folder: path -> file state
    documents,   \* committed rows of table documents
    chunks,      \* committed rows of table chunks
    seq,         \* committed AUTOINCREMENT counter of documents (sqlite_sequence)
    wdocs,       \* table documents as the open connection sees it (uncommitted changes included)
    wchunks,     \* table chunks as the open connection sees it
    wseq,        \* the counter as the open connection sees it
    pc,          \* position of the running load_markdown_to_db call ("idle": no call)
    overwrite,   \* its argument overwrite_existing
    md_files,    \* its sorted list md_files
    idx,         \* 1-based position of file_path in md_files
    total,       \* total_chunks_added
    cur_chunks,  \* chunks of the file in hand
    doc_id,      \* cursor.lastrowid of the document inserted for the file in hand
    ci,          \* chunk_index of the next chunk row to insert
    ret,         \* what the call returned (-1: it has not returned)
    raised,      \* an exception left the call
    docs0,       \* documents when the call began
    chunks0,     \* chunks when the call began
    outcome,     \* what the call did with each path
    nfaults,     \* failures injected into the call so far
    runs,        \* calls begun
    edits,       \* changes made to the docs folder
    lastRun,     \* the previous call, while the docs folder is as that call saw it
    c_words, c_size, c_out, c_pc,   \* SpecChunk: a call chunk_text(text of c_words words, c_size)
    s_rows,      \* SpecSearch: what the SELECT ... JOIN of search fetches, in fetch order
    s_query,     \* the query embedding, encode_single(query)
    s_top_k,     \* the argument top_k
    s_filter,    \* the argument file_filter
    s_common,    \* the .md file names _get_common_folder_files found during the call
    s_out,       \* the list search returns
    s_raised,    \* an exception left search
    s_pc,        \* "call" before search runs, "done" after
    a_pc,        \* SpecAnswer: position of the answer_question call ("off": no call)
    a_history,   \* the argument conversation_history
    a_conv,      \* conversation_context
    a_set,       \* set(search_results) in the order its iteration yields
    a_context,   \* the context given to generate_answer, part by part
    a_gen_calls, \* calls of generate_answer
    a_gen_failed,\* generate_content raised in the last of them
    a_prompt,    \* the prompt generate_answer built for generate_content
    a_result,    \* the dict answer_question returned
    a_raised,    \* an exception left answer_question
    k_op,        \* SpecConn: the operation that runs ("none": no operation)
    k_at,        \* 1-based position of its next statement
    k_open,      \* store connections opened and not closed
    k_exit,      \* how the last operation left: "returned" or "raised"
    k_calls,     \* operations called
    l_pc,        \* SpecLoad: position of the load_model call ("off": no call)
    l_env,       \* what config.get_device finds: torch, a CUDA device, a working CUDA device
    l_dim,       \* the output dimension of the model named by config.EMBEDDING_MODEL
    l_embedder,  \* self.embedder
    l_embedding_dim, \* self.embedding_dim
    l_attempts,  \* the devices whose try block load_model has entered, in order
    l_raised,    \* an exception left load_model
    r_pc,        \* SpecRace: position of each process in load_markdown_to_db
    r_idx,       \* 1-based position of each process in md_files
    r_overwrite, \* overwrite_existing of each process
    r_existing,  \* whether the SELECT of each process found a row
    r_docs,      \* the committed rows of documents
    r_tx,        \* the open transaction of each process: rows deleted and inserted
    r_lock,      \* the process that holds the write lock of the store file (0: none)
    r_seq,       \* highest document id given out
    r_outcome,   \* per process and file: "none", "skipped", "stored", "failed"
    r_error      \* per process and file: the store error caught ("none" if none)

ingestVars == <<fs, documents, chunks, seq, wdocs, wchunks, wseq, pc, overwrite, md_files,
                idx, total, cur_chunks, doc_id, ci, ret, raised, docs0, chunks0, outcome,
                nfaults, runs, edits, lastRun>>
chunkVars == <<c_words, c_size, c_out, c_pc>>
searchVars == <<s_rows, s_query, s_top_k, s_filter, s_common, s_out, s_raised, s_pc>>
answerVars == <<a_pc, a_history, a_conv, a_set, a_context, a_gen_calls, a_gen_failed, a_prompt,
                a_result, a_raised>>
connVars == <<k_op, k_at, k_open, k_exit, k_calls>>
loadVars == <<l_pc, l_env, l_dim, l_embedder, l_embedding_dim, l_attempts, l_raised>>
raceVars == <<r_pc, r_idx, r_overwrite, r_existing, r_docs, r_tx, r_lock, r_seq, r_outcome, r_error>>
pureVars == <<chunkVars, searchVars, answerVars, connVars, loadVars, raceVars>>
vars == <<ingestVars, chunkVars, searchVars, answerVars, connVars, loadVars, raceVars>>

\* ------------------------------------------------------------ the store
\* SELECT id FROM documents WHERE file_path = ?  (fetchone: the rows found)
SelectByPath(docs, path) == {d \in docs : d.file_path = path}

\* DELETE FROM documents WHERE id = ?: the chunk rows left. ON DELETE CASCADE acts
\* only on a connection that enforces foreign keys.
ChunksAfterDelete(chs, id) ==
    IF ForeignKeysEnforced THEN {c \in chs : c.doc_id # id} ELSE chs

\* the chunk rows of document id
ChunksOf(chs, id) == {c \in chs : c.doc_id = id}

\* fetch_markdown_files: the existing paths, sorted
RECURSIVE SortedFrom(_, _)
SortedFrom(S, p) ==
    IF p > NumFiles THEN <<>>
    ELSE (IF p \in S THEN <<p>> ELSE <<>>) \o SortedFrom(S, p + 1)
fetch_markdown_files == SortedFrom({p \in Paths : fs[p] # <<>>}, 1)

\* SkipExisting with the test dropped: an existing row is always replaced
SkipExistingNever(ow) == FALSE

\* `if not overwrite_existing` on an existing row: the file is skipped
SkipExisting(ow) == ~ow

\* ------------------------------------------------------- per-file control
file_path == md_files[idx]

\* the loop goes on to the next file; after the last one to conn.close()
Advance ==
    /\ idx' = idx + 1
    /\ pc' = IF idx + 1 > Len(md_files) THEN "close" ELSE "select"
    /\ cur_chunks' = <<>>
    /\ doc_id' = 0
    /\ ci' = 0

Rollback == wdocs' = documents /\ wchunks' = chunks /\ wseq' = seq

\* `except Exception` of the file loop: log, go on to the next file. The handler
\* issues no rollback; SQLite itself rolls the open transaction back (rb) on some
\* errors (full disk, I/O error) and aborts only the statement on the others.
HandleError(rb) ==
    /\ outcome' = [outcome EXCEPT ![file_path] = "failed"]
    /\ IF rb THEN Rollback ELSE UNCHANGED <<wdocs, wchunks, wseq>>
    /\ Advance
    /\ UNCHANGED <<fs, documents, chunks, seq, overwrite, md_files, total, ret, raised,
                   docs0, chunks0, runs, edits, lastRun>>

\* the environment makes the statement at hand fail
Fault(rb) ==
    /\ nfaults < MaxFaults
    /\ nfaults' = nfaults + 1
    /\ HandleError(rb)

\* `continue`: the file is left with verdict v, the open transaction as it is
Continue(v) ==
    /\ outcome' = [outcome EXCEPT ![file_path] = v]
    /\ Advance
    /\ UNCHANGED <<fs, documents, chunks, seq, wdocs, wchunks, wseq, overwrite, md_files,
                   total, ret, raised, docs0, chunks0, runs, edits, lastRun>>

\* ------------------------------------------------- load_markdown_to_db
\* The docs folder changes between two calls: a file is written, blanked or removed.
EditFile(p, st) ==
    /\ pc = "idle"
    /\ edits < MaxEdits
    /\ fs[p] # st
    /\ fs' = [fs EXCEPT ![p] = st]
    /\ edits' = edits + 1
    /\ lastRun' = "none"
    /\ UNCHANGED <<documents, chunks, seq, wdocs, wchunks, wseq, pc, overwrite, md_files,
                   idx, total, cur_chunks, doc_id, ci, ret, raised, docs0, chunks0, outcome,
                   nfaults, runs>>

\* connect, fetch_markdown_files, the early return on no file, total_chunks_added = 0
Begin(ow) ==
    /\ pc = "idle"
    /\ runs < MaxRuns
    /\ runs' = runs + 1
    /\ overwrite' = ow
    /\ md_files' = fetch_markdown_files
    /\ docs0' = documents
    /\ chunks0' = chunks
    /\ outcome' = [p \in Paths |-> "none"]
    /\ nfaults' = 0
    /\ total' = 0
    /\ idx' = 1
    /\ raised' = FALSE
    /\ IF fetch_markdown_files = <<>>
       THEN pc' = "done" /\ ret' = 0          \* conn.close(); return 0
       ELSE pc' = "select" /\ ret' = -1
    /\ UNCHANGED <<fs, documents, chunks, seq, wdocs, wchunks, wseq, cur_chunks, doc_id, ci,
                   edits, lastRun>>

\* SELECT id FROM documents WHERE file_path = ?; skip, or DELETE the row found
CheckExisting ==
    /\ pc = "select"
    /\ LET existing == SelectByPath(wdocs, file_path)
       IN  \/ \E rb \in BOOLEAN : Fault(rb)                       \* the SELECT fails
           \/ /\ existing # {}
              /\ SkipExisting(overwrite)
              /\ nfaults' = nfaults
              /\ Continue("skipped")
           \/ /\ existing # {}
              /\ ~SkipExisting(overwrite)
              /\ \/ \E rb \in BOOLEAN : Fault(rb)                 \* the DELETE fails
                 \/ /\ wdocs' = wdocs \ existing
                    /\ wchunks' = ChunksAfterDelete(wchunks, (CHOOSE d \in existing : TRUE).id)
                    /\ pc' = "read"
                    /\ UNCHANGED <<fs, documents, chunks, seq, wseq, overwrite, md_files, idx,
                                   total, cur_chunks, doc_id, ci, ret, raised, docs0, chunks0,
                                   outcome, nfaults, runs, edits, lastRun>>
           \/ /\ existing = {}
              /\ pc' = "read"
              /\ UNCHANGED <<fs, documents, chunks, seq, wdocs, wchunks, wseq, overwrite,
                             md_files, idx, total, cur_chunks, doc_id, ci, ret, raised, docs0,
                             chunks0, outcome, nfaults, runs, edits, lastRun>>

\* open/read, the blank test, chunk_text, encode and the shape test
ReadChunkEncode ==
    /\ pc = "read"
    /\ LET content == fs[file_path][1]
           chunked == chunk_text(WordsOf(content), CHUNK_SIZE)
       IN  \/ Fault(FALSE)                                        \* open or read raises
           \/ /\ content = 0                                      \* not content.strip()
              /\ nfaults' = nfaults
              /\ Continue("empty")
           \/ /\ content # 0
              /\ chunked.raised
              /\ nfaults' = nfaults
              /\ HandleError(FALSE)
           \/ /\ content # 0
              /\ ~chunked.raised
              /\ \/ /\ chunked.chunks = <<>>                      \* not chunks
                    /\ nfaults' = nfaults
                    /\ Continue("empty")
                 \/ /\ chunked.chunks # <<>>                      \* encode raises, or the
                    /\ nfaults < MaxFaults                        \* shape test fails
                    /\ nfaults' = nfaults + 1
                    /\ Continue("failed")
                 \/ /\ chunked.chunks # <<>>
                    /\ cur_chunks' = chunked.chunks
                    /\ pc' = "insert_doc"
                    /\ UNCHANGED <<fs, documents, chunks, seq, wdocs, wchunks, wseq, overwrite,
                                   md_files, idx, total, doc_id, ci, ret, raised, docs0,
                                   chunks0, outcome, nfaults, runs, edits, lastRun>>

\* INSERT INTO documents (file_path, file_name, original_content, chunk_count)
InsertDocument ==
    /\ pc = "insert_doc"
    /\ \/ \E rb \in BOOLEAN : Fault(rb)                           \* the INSERT fails
       \/ /\ SelectByPath(wdocs, file_path) # {}                  \* file_path UNIQUE
          /\ nfaults' = nfaults
          /\ HandleError(FALSE)
       \/ /\ SelectByPath(wdocs, file_path) = {}
          /\ wseq' = wseq + 1
          /\ doc_id' = wseq + 1
          /\ wdocs' = wdocs \cup {[id |-> wseq + 1, file_path |-> file_path,
                                   original_content |-> fs[file_path][1],
                                   chunk_count |-> Len(cur_chunks)]}
          /\ ci' = 0
          /\ pc' = "insert_chunk"
          /\ UNCHANGED <<fs, documents, chunks, seq, wchunks, overwrite, md_files, idx, total,
                         cur_chunks, ret, raised, docs0, chunks0, outcome, nfaults, runs,
                         edits, lastRun>>

\* one turn of `for chunk_index, chunk in enumerate(chunks)`: INSERT INTO chunks
InsertChunk ==
    /\ pc = "insert_chunk"
    /\ \/ \E rb \in BOOLEAN : Fault(rb)                           \* the INSERT fails
       \/ /\ \/ \E c \in wchunks : c.doc_id = doc_id /\ c.chunk_index = ci   \* UNIQUE
             \/ ForeignKeysEnforced /\ \A d \in wdocs : d.id # doc_id
          /\ nfaults' = nfaults
          /\ HandleError(FALSE)
       \/ /\ \A c \in wchunks : ~(c.doc_id = doc_id /\ c.chunk_index = ci)
          /\ ForeignKeysEnforced => \E d \in wdocs : d.id = doc_id
          /\ wchunks' = wchunks \cup
                 {[doc_id |-> doc_id, chunk_index |-> ci,
                   chunk_content |-> <<fs[file_path][1]>> \o cur_chunks[ci + 1]]}
          /\ ci' = ci + 1
          /\ pc' = IF ci + 1 = Len(cur_chunks) THEN "commit" ELSE "insert_chunk"
          /\ UNCHANGED <<fs, documents, chunks, seq, wdocs, wseq, overwrite, md_files, idx,
                         total, cur_chunks, doc_id, ret, raised, docs0, chunks0, outcome,
                         nfaults, runs, edits, lastRun>>

\* conn.commit(); total_chunks_added += len(chunks)
Commit ==
    /\ pc = "commit"
    /\ \/ \E rb \in BOOLEAN : Fault(rb)                           \* the commit fails
       \/ /\ documents' = wdocs
          /\ chunks' = wchunks
          /\ seq' = wseq
          /\ total' = total + Len(cur_chunks)
          /\ outcome' = [outcome EXCEPT ![file_path] = "stored"]
          /\ Advance
          /\ UNCHANGED <<fs, wdocs, wchunks, wseq, overwrite, md_files, ret, raised, docs0,
                         chunks0, nfaults, runs, edits, lastRun>>

\* conn.close() drops what the connection has not committed; return total_chunks_added
Close ==
    /\ pc = "close"
    /\ Rollback
    /\ ret' = total
    /\ pc' = "done"
    /\ UNCHANGED <<fs, documents, chunks, seq, overwrite, md_files, idx, total, cur_chunks,
                   doc_id, ci, raised, docs0, chunks0, outcome, nfaults, runs, edits, lastRun>>

\* the caller has the result; the next call may begin
Return ==
    /\ pc = "done"
    /\ pc' = "idle"
    /\ lastRun' = IF overwrite THEN "overwrite"
                  ELSE IF nfaults = 0 THEN "plain" ELSE "plain_failed"
    /\ UNCHANGED <<fs, documents, chunks, seq, wdocs, wchunks, wseq, overwrite, md_files, idx,
                   total, cur_chunks, doc_id, ci, ret, raised, docs0, chunks0, outcome,
                   nfaults, runs, edits>>

\* no run of load_markdown_to_db: the state after construction, the store empty
IngestIdle ==
    /\ documents = {} /\ chunks = {} /\ seq = 0
    /\ wdocs = {} /\ wchunks = {} /\ wseq = 0
    /\ pc = "idle"
    /\ overwrite = FALSE
    /\ md_files = <<>>
    /\ idx = 1 /\ total = 0 /\ cur_chunks = <<>> /\ doc_id = 0 /\ ci = 0
    /\ ret = -1 /\ raised = FALSE
    /\ docs0 = {} /\ chunks0 = {}
    /\ outcome = [p \in Paths |-> "none"]
    /\ nfaults = 0 /\ runs = 0 /\ edits = 0
    /\ lastRun = "none"

\* no call of chunk_text, no call of search
ChunkOff ==
    c_words = 0 /\ c_size = 0 /\ c_out = [raised |-> FALSE, chunks |-> <<>>] /\ c_pc = "off"
SearchOff ==
    /\ s_rows = <<>> /\ s_query = <<0, 0>> /\ s_top_k = 0
    /\ s_filter = [kind |-> "none", names |-> <<>>]
    /\ s_common = {} /\ s_out = <<>> /\ s_raised = FALSE /\ s_pc = "off"

\* no call of answer_question
NoResult == [answer |-> "none", sources_found |-> 0, search_results |-> <<>>, keys |-> {}]
NoConversation == [pairs |-> <<>>, current |-> FALSE]
NoPrompt == [template |-> "none", conversation |-> NoConversation, context |-> <<>>]
AnswerOff ==
    /\ a_pc = "off" /\ a_history = <<>> /\ a_conv = NoConversation
    /\ a_set = <<>> /\ a_context = <<>> /\ a_gen_calls = 0 /\ a_gen_failed = FALSE
    /\ a_prompt = NoPrompt /\ a_result = NoResult /\ a_raised = FALSE

\* no operation has opened a connection
ConnOff == k_op = "none" /\ k_at = 0 /\ k_open = 0 /\ k_exit = "none" /\ k_calls = 0

\* no EmbeddingManager is under construction
None == [device |-> "none", dim |-> 0]
NoEnv == [torch |-> FALSE, cuda |-> FALSE, probe |-> FALSE]
LoadOff ==
    /\ l_pc = "off" /\ l_env = NoEnv /\ l_dim = 0 /\ l_embedder = None
    /\ l_embedding_dim = 0 /\ l_attempts = <<>> /\ l_raised = FALSE

\* no process ingests into a shared store
RaceOff ==
    /\ r_pc = <<>> /\ r_idx = <<>> /\ r_overwrite = <<>> /\ r_existing = <<>>
    /\ r_docs = {} /\ r_tx = <<>> /\ r_lock = 0 /\ r_seq = 0
    /\ r_outcome = <<>> /\ r_error = <<>>

Init ==
    /\ fs \in [Paths -> FileStates]
    /\ IngestIdle
    /\ ChunkOff
    /\ SearchOff
    /\ AnswerOff
    /\ ConnOff
    /\ LoadOff
    /\ RaceOff

Next ==
    \/ \E p \in Paths, st \in FileStates : EditFile(p, st) /\ UNCHANGED pureVars
    \/ \E ow \in BOOLEAN : Begin(ow) /\ UNCHANGED pureVars
    \/ CheckExisting /\ UNCHANGED pureVars
    \/ ReadChunkEncode /\ UNCHANGED pureVars
    \/ InsertDocument /\ UNCHANGED pureVars
    \/ InsertChunk /\ UNCHANGED pureVars
    \/ Commit /\ UNCHANGED pureVars
    \/ Close /\ UNCHANGED pureVars
    \/ Return /\ UNCHANGED pureVars

Spec == Init /\ [][Next]_vars

\* ------------------------------------------------------ ingestion claims
\* the call has returned
Returned == pc = "done"

\* the chunk rows chunk_text yields for text v, owned by document id
ExpectedChunks(id, v) ==
    LET cs == chunk_text(WordsOf(v), CHUNK_SIZE).chunks
    IN  {[doc_id |-> id, chunk_index |-> k - 1, chunk_content |-> <<v>> \o cs[k]] :
            k \in 1..Len(cs)}

\* document row d has its chunk_count chunk rows, indexed 0..chunk_count-1
Complete(d, chs) ==
    /\ Cardinality(ChunksOf(chs, d.id)) = d.chunk_count
    /\ \A k \in 0..(d.chunk_count - 1) : \E c \in ChunksOf(chs, d.id) : c.chunk_index = k

\* C1: after a call with overwrite_existing=True has re-ingested a file that had a
\* document row, no chunk row of the deleted row is left (none references the id that
\* no longer exists) and the file's chunk rows are exactly those of the new version.
C1_OverwriteLeavesOnlyNewChunks ==
    (Returned /\ overwrite) =>
        \A d0 \in docs0 :
            outcome[d0.file_path] = "stored" =>
                /\ ChunksOf(chunks, d0.id) = {}
                /\ \A d \in SelectByPath(documents, d0.file_path) :
                       ChunksOf(chunks, d.id) = ExpectedChunks(d.id, fs[d0.file_path][1])

\* C2: when the call returns, every file it processed has in the committed store
\* either its document row with all chunk_count chunk rows or nothing: no
\* document row short of chunk rows, no chunk row of this call without its document.
C2_DocumentAtomicity ==
    Returned =>
        /\ \A d \in documents : outcome[d.file_path] # "none" => Complete(d, chunks)
        /\ \A c \in chunks \ chunks0 : \E d \in documents : d.id = c.doc_id

\* C3: after a call with overwrite_existing=True, every path that had a document row
\* before the call has exactly one, either the old row with its old chunk rows or a
\* new row with all chunk rows of the text read.
C3_AtomicReplace ==
    (Returned /\ overwrite) =>
        \A d0 \in docs0 :
            LET now == SelectByPath(documents, d0.file_path)
            IN  /\ Cardinality(now) = 1
                /\ \A d \in now :
                       \/ d = d0 /\ ChunksOf(chunks, d.id) = ChunksOf(chunks0, d.id)
                       \/ /\ d \notin docs0
                          /\ ChunksOf(chunks, d.id) = ExpectedChunks(d.id, d.original_content)

C5_PartialFailureTolerance ==
    Returned =>
        /\ ~raised
        /\ \A j \in 1..Len(md_files) : outcome[md_files[j]] # "none"
        /\ \A i, j \in 1..Len(md_files) :
               (/\ i < j
                /\ outcome[md_files[i]] \in {"failed", "empty"}
                /\ outcome[md_files[j]] \in {"skipped", "stored"}) =>
                   \E d \in SelectByPath(documents, md_files[j]) : Complete(d, chunks)

\* C6: the integer returned is the number of chunk rows this call inserted that are
\* in the committed store when it returns.
C6_ReturnCountsDurableInserts ==
    Returned => ret = Cardinality(chunks \ chunks0)

\* ---------------------------------------------------------------- SpecChunk
\* chunk_text called on a text of c_words words with chunk size c_size
ChunkCall ==
    /\ c_pc = "call"
    /\ c_out' = chunk_text(c_words, c_size)
    /\ c_pc' = "done"
    /\ UNCHANGED <<c_words, c_size, ingestVars, searchVars, answerVars, connVars, loadVars, raceVars>>

InitChunk ==
    /\ fs = [p \in Paths |-> <<>>]
    /\ IngestIdle
    /\ SearchOff
    /\ AnswerOff
    /\ ConnOff
    /\ LoadOff
    /\ RaceOff
    /\ c_words \in 0..MaxWords
    /\ c_size \in 1..MaxChunkSize
    /\ c_out = [raised |-> FALSE, chunks |-> <<>>]
    /\ c_pc = "call"

NextChunk == ChunkCall

SpecChunk == InitChunk /\ [][NextChunk]_vars

\* C7: for W >= 1 words and chunk_size >= 2 the chunks are the word ranges
\* [k*step, min(k*step + chunk_size, W)), k = 0, 1, ..., step = chunk_size -
\* max(1, chunk_size // 10); they cover [0, W), consecutive ranges leave no gap, and
\* the last chunk holds word W-1.
C7_ChunkCoverage ==
    (c_pc = "done" /\ c_words >= 1 /\ c_size >= 2) =>
        LET W    == c_words
            step == c_size - (IF c_size \div 10 > 1 THEN c_size \div 10 ELSE 1)
            cs   == c_out.chunks
            n    == Len(cs)
        IN  /\ ~c_out.raised
            /\ n >= 1
            /\ \A k \in 1..n :
                   cs[k] = <<(k - 1) * step,
                             IF (k - 1) * step + c_size < W THEN (k - 1) * step + c_size ELSE W>>
            /\ \A w \in 0..(W - 1) : \E k \in 1..n : cs[k][1] <= w /\ w < cs[k][2]
            /\ \A k \in 1..(n - 1) : cs[k + 1][1] <= cs[k][2]
            /\ cs[n][1] <= W - 1 /\ W - 1 < cs[n][2]

\* a text cut into three or more windows, with an overlap of two words and a short tail
C7_Witness ==
    /\ c_pc = "done" /\ c_words >= 1 /\ c_size >= 20
    /\ Len(c_out.chunks) >= 3
    /\ c_out.chunks[Len(c_out.chunks)][2] - c_out.chunks[Len(c_out.chunks)][1] < c_size

\* --------------------------------------------------------------- SpecSearch
\* File names of stored documents, and one name no document has.
StoredNames == {"a.md", "b.md"}
FilterNames == StoredNames \cup {"x.md"}

\* Embedding vectors. Their norms are whole numbers, so that the cosine similarity
\* to a query is a whole number of hundredths; <<0, 0>> is the zero vector.
Embeddings == {<<1, 0>>, <<4, 3>>, <<0, 0>>, <<-1, 0>>}
Queries == {<<3, 4>>}

\* np.dot, np.linalg.norm
Dot(u, v) == u[1] * v[1] + u[2] * v[2]
Norm(v) == CHOOSE n \in 0..(Dot(v, v)) : n * n = Dot(v, v)

\* dot_product / (norm_query * norm_chunk + 1e-10), in hundredths. The 1e-10 decides
\* the value only when a norm is zero: the quotient is then 0.
CosineSimilarity(q, c) ==
    IF Norm(q) * Norm(c) = 0 THEN 0
    ELSE (100 * Dot(q, c)) \div (Norm(q) * Norm(c))

\* An embedding blob is [bytes, floats]: its length in bytes and the float32 values
\* its complete 4-byte groups hold. embedding_to_blob writes 4 * dim bytes.
\* blob_to_embedding: np.frombuffer raises when the length is no multiple of 4, and
\* the handler returns np.zeros((1, dim)); any other length decodes to bytes / 4
\* columns, whatever dim is.
blob_to_embedding(blob, dim) ==
    IF blob.bytes % 4 # 0 THEN [k \in 1..dim |-> 0] ELSE blob.floats

\* np.dot of two flat vectors raises ValueError when their lengths differ
DotRaises(rows, q) ==
    \E i \in 1..Len(rows) :
        Len(blob_to_embedding(rows[i].embedding, rows[i].embedding_dim)) # Len(q)

\* the loop over results: one (chunk_content, file_name, similarity) per row, in order
Similarities(rows, q) ==
    [i \in 1..Len(rows) |->
        [chunk |-> rows[i].chunk_content, file_name |-> rows[i].file_name,
         sim |-> CosineSimilarity(q, blob_to_embedding(rows[i].embedding,
                                                       rows[i].embedding_dim))]]

\* list.sort(key=lambda x: x[2], reverse=True): stable, equal keys keep their order
RECURSIVE InsertDesc(_, _)
InsertDesc(x, sorted) ==
    IF sorted = <<>> THEN <<x>>
    ELSE IF Head(sorted).sim >= x.sim THEN <<Head(sorted)>> \o InsertDesc(x, Tail(sorted))
    ELSE <<x>> \o sorted
RECURSIVE SortDescFrom(_, _, _)
SortDescFrom(items, i, acc) ==
    IF i > Len(items) THEN acc ELSE SortDescFrom(items, i + 1, InsertDesc(items[i], acc))

\* SortDesc without the sort: the items stay in the order given
SortDescKeepOrder(items) == items

SortDesc(items) == SortDescFrom(items, 1, <<>>)

\* file_max_sim after the grouping loop has seen items[i..]: a dict in insertion
\* order. Reading file_max_sim[file_name] of a new name inserts the default
\* {'sim': 0, 'chunk': ''} ('' is <<>> here); the entry is replaced where it stands
\* when sim > its 'sim'.
RECURSIVE GroupFrom(_, _, _)
GroupFrom(items, i, dict) ==
    IF i > Len(items) THEN dict
    ELSE LET it    == items[i]
             known == \E k \in 1..Len(dict) : dict[k].file_name = it.file_name
             d1    == IF known THEN dict
                      ELSE Append(dict, [chunk |-> <<>>, file_name |-> it.file_name, sim |-> 0])
             pos   == CHOOSE k \in 1..Len(d1) : d1[k].file_name = it.file_name
             d2    == IF it.sim > d1[pos].sim THEN [d1 EXCEPT ![pos] = it] ELSE d1
         IN  GroupFrom(items, i + 1, d2)

\* GroupByFile without the grouping: every scored chunk is kept
GroupByFileKeepAll(items) == items

\* the grouping loop and the list built from file_max_sim.items()
GroupByFile(items) == GroupFrom(items, 1, <<>>)

\* a sequence without the items that fail Keep
RECURSIVE FilterNamesIn(_, _)
FilterNamesIn(items, allowed) ==
    IF items = <<>> THEN <<>>
    ELSE (IF Head(items).file_name \in allowed THEN <<Head(items)>> ELSE <<>>)
         \o FilterNamesIn(Tail(items), allowed)

\* `if file_filter:`: None, '' and [] are false
Truthy(flt) ==
    \/ flt.kind = "wildcard"
    \/ flt.kind = "scalar" /\ flt.names[1] # ""
    \/ flt.kind = "list" /\ Len(flt.names) > 0

\* the names a true file_filter lets through; common is what
\* _get_common_folder_files finds under docs/common
AllowedNames(flt, common) ==
    IF flt.kind = "wildcard" THEN common
    ELSE {flt.names[k] : k \in 1..Len(flt.names)}

\* SemanticSearcher.search from the fetched rows on, when no np.dot raises
search(rows, q, top_k, flt, common) ==
    IF rows = <<>> THEN <<>>                                       \* if not results
    ELSE LET similarities == SortDesc(Similarities(rows, q))
             k1     == Min(top_k, Len(similarities))
             unique == SortDesc(GroupByFile(similarities))
             k2     == Min(k1, Len(unique))
             kept   == IF Truthy(flt) THEN FilterNamesIn(unique, AllowedNames(flt, common))
                       ELSE unique
             k3     == IF Truthy(flt) THEN Min(k2, Len(kept)) ELSE k2
         IN  SubSeq(kept, 1, k3)                                   \* unique_similarities[:top_k]

\* search is called; the docs/common folder holds the files named in common
SearchCall(common) ==
    /\ s_pc = "call"
    /\ s_common' = IF Truthy(s_filter) /\ s_filter.kind = "wildcard" THEN common ELSE {}
    /\ s_raised' = DotRaises(s_rows, s_query)
    /\ s_out' = IF DotRaises(s_rows, s_query) THEN <<>>
               ELSE search(s_rows, s_query, s_top_k, s_filter, common)
    /\ s_pc' = "done"
    /\ UNCHANGED <<s_rows, s_query, s_top_k, s_filter, ingestVars, chunkVars>>

\* the stores of up to MaxRows chunk rows; row i holds the text <<i>>
\* its blobs are those embedding_to_blob wrote: 4 bytes for each float
RowSeqs ==
    UNION {[1..n -> [file_name : StoredNames, embedding : Embeddings]] : n \in 0..MaxRows}
WithContent(rs) ==
    [i \in 1..Len(rs) |->
        [chunk_content |-> <<i>>, file_name |-> rs[i].file_name,
         embedding |-> [bytes |-> 4 * Len(rs[i].embedding), floats |-> rs[i].embedding],
         embedding_dim |-> Len(rs[i].embedding)]]

\* file_filter: None, a file name, "*", or a list of file names
Filters ==
    {[kind |-> "none", names |-> <<>>], [kind |-> "wildcard", names |-> <<>>]}
    \cup {[kind |-> "scalar", names |-> <<n>>] : n \in FilterNames}
    \cup {[kind |-> "list", names |-> <<>>]}
    \cup {[kind |-> "list", names |-> <<n>>] : n \in FilterNames}
    \cup {[kind |-> "list", names |-> <<"a.md", n>>] : n \in {"b.md", "x.md"}}

InitSearch ==
    /\ fs = [p \in Paths |-> <<>>]
    /\ IngestIdle
    /\ ChunkOff
    /\ AnswerOff
    /\ ConnOff
    /\ LoadOff
    /\ RaceOff
    /\ \E rs \in RowSeqs : s_rows = WithContent(rs)
    /\ s_query \in Queries
    /\ s_top_k \in 0..MaxTopK
    /\ s_filter \in Filters
    /\ s_common = {}
    /\ s_out = <<>>
    /\ s_raised = FALSE
    /\ s_pc = "call"

NextSearch ==
    \E common \in SUBSET StoredNames : SearchCall(common) /\ UNCHANGED <<answerVars, connVars, loadVars, raceVars>>

SpecSearch == InitSearch /\ [][NextSearch]_vars

\* the stored chunks of file name f with their similarity to the query
ScoredOf(f) ==
    {[chunk |-> s_rows[i].chunk_content, file_name |-> f,
      sim |-> CosineSimilarity(s_query, blob_to_embedding(s_rows[i].embedding,
                                                          s_rows[i].embedding_dim))] :
        i \in {j \in 1..Len(s_rows) : s_rows[j].file_name = f}}

\* C8: the list search returns holds at most one entry per file name.
C8_OneEntryPerFile ==
    s_pc = "done" =>
        \A i, j \in 1..Len(s_out) : i # j => s_out[i].file_name # s_out[j].file_name

\* a file with two or more chunks stored is returned, next to another file
C8_Witness ==
    /\ s_pc = "done"
    /\ Len(s_out) = 2
    /\ Cardinality(ScoredOf(s_out[1].file_name)) >= 2

\* C9: every entry returned is a stored chunk of its file, and its similarity is the
\* highest similarity among the stored chunks of that file, whatever the signs.
C9_BestChunkPerFile ==
    s_pc = "done" =>
        \A i \in 1..Len(s_out) :
            /\ s_out[i] \in ScoredOf(s_out[i].file_name)
            /\ \A c \in ScoredOf(s_out[i].file_name) : c.sim <= s_out[i].sim

\* C10: with file_filter a list of file names (the empty list included), every entry
\* returned has a file name that is in the list.
C10_FilterExactness ==
    (s_pc = "done" /\ s_filter.kind = "list") =>
        \A i \in 1..Len(s_out) :
            \E k \in 1..Len(s_filter.names) : s_filter.names[k] = s_out[i].file_name

\* C11: the list search returns is in non-increasing order of similarity, with or
\* without a file_filter and whatever top_k cuts off.
C11_ResultOrdering ==
    s_pc = "done" =>
        \A i, j \in 1..Len(s_out) : i < j => s_out[i].sim >= s_out[j].sim

\* two files pass a file_filter and come back best first, although the store
\* holds the better chunk after the worse one
C11_Witness ==
    /\ s_pc = "done"
    /\ Truthy(s_filter)
    /\ Len(s_out) = 2
    /\ s_out[1].sim > s_out[2].sim
    /\ s_out[1].chunk # <<>> /\ s_out[2].chunk # <<>>
    /\ s_out[1].chunk[1] > s_out[2].chunk[1]

\* the file names the store holds
StoredFileNames == {s_rows[i].file_name : i \in 1..Len(s_rows)}

\* file name f is one the file_filter asks for: any name without a filter, a
\* name of docs/common for "*", the name given, a member of the list given
Survives(f) ==
    CASE s_filter.kind = "none"     -> TRUE
      [] s_filter.kind = "wildcard" -> f \in s_common
      [] OTHER -> \E k \in 1..Len(s_filter.names) : s_filter.names[k] = f

\* the highest similarity among the stored chunks of file name f
BestOf(f) == CHOOSE m \in {c.sim : c \in ScoredOf(f)} : \A c \in ScoredOf(f) : c.sim <= m

\* the result holds min(top_k, n) survivors of the file_filter, n the number of
\* stored file names that survive it, and no survivor left out ranks above one returned
CountAndRankAsClaimed ==
    LET survivors == {f \in StoredFileNames : Survives(f)}
        returned  == {s_out[i].file_name : i \in 1..Len(s_out)}
    IN  /\ Len(s_out) = Min(s_top_k, Cardinality(survivors))
        /\ returned \subseteq survivors
        /\ \A f \in survivors \ returned, g \in returned : BestOf(g) >= BestOf(f)

\* C12: search returns min(top_k, n) results, n the number of stored file names that
\* survive the file_filter; each result is a survivor, and no survivor left out has a
\* better best chunk than one returned.
C12_ResultCount == s_pc = "done" => CountAndRankAsClaimed

\* C12 for the filters that `if file_filter:` takes as given (every one but the
\* empty list): the count, the survivors and their rank are as claimed.
C12_ResultCountFilterGiven ==
    (s_pc = "done" /\ (Truthy(s_filter) \/ s_filter.kind = "none")) => CountAndRankAsClaimed

\* ----------------------------------------------------------------- SpecBlob
\* search on stores whose embedding blobs are of any length. The query has two
\* columns and every row has embedding_dim 2, so embedding_to_blob wrote 8 bytes;
\* a blob of 4 or 12 bytes holds one or three floats, one of 6 bytes holds one float
\* and half of another.
Blobs ==
    {[bytes |-> 8, floats |-> e] : e \in Embeddings}
    \cup {[bytes |-> 4, floats |-> <<1>>], [bytes |-> 6, floats |-> <<1>>],
          [bytes |-> 12, floats |-> <<1, 0, 0>>]}

BlobRowSeqs ==
    UNION {[1..n -> [file_name : StoredNames, embedding : Blobs]] : n \in 0..MaxBlobRows}
WithContentAndDim(rs) ==
    [i \in 1..Len(rs) |->
        [chunk_content |-> <<i>>, file_name |-> rs[i].file_name,
         embedding |-> rs[i].embedding, embedding_dim |-> 2]]

InitBlob ==
    /\ fs = [p \in Paths |-> <<>>]
    /\ IngestIdle
    /\ ChunkOff
    /\ AnswerOff
    /\ ConnOff
    /\ LoadOff
    /\ RaceOff
    /\ \E rs \in BlobRowSeqs : s_rows = WithContentAndDim(rs)
    /\ s_query \in Queries
    /\ s_top_k \in 0..MaxTopK
    /\ s_filter = [kind |-> "none", names |-> <<>>]
    /\ s_common = {}
    /\ s_out = <<>>
    /\ s_raised = FALSE
    /\ s_pc = "call"

SpecBlob == InitBlob /\ [][NextSearch]_vars

\* row i holds a blob that embedding_to_blob did not write for its embedding_dim
WrongLength(i) == s_rows[i].embedding.bytes # 4 * s_rows[i].embedding_dim

\* C13: whatever the byte length of a stored blob, search raises nothing, and every
\* blob whose length is not 4 * embedding_dim decodes to the zero vector of
\* embedding_dim columns.
C13_WrongLengthBlobTolerated ==
    s_pc = "done" =>
        /\ ~s_raised
        /\ \A i \in 1..Len(s_rows) :
               WrongLength(i) =>
                   blob_to_embedding(s_rows[i].embedding, s_rows[i].embedding_dim)
                       = [k \in 1..s_rows[i].embedding_dim |-> 0]

\* C13 for the blobs np.frombuffer rejects (a length that is no multiple of 4):
\* they decode to the zero vector and search returns.
C13_RaggedBlobTolerated ==
    (s_pc = "done" /\ \A i \in 1..Len(s_rows) :
                         WrongLength(i) => s_rows[i].embedding.bytes % 4 # 0) =>
        /\ ~s_raised
        /\ \A i \in 1..Len(s_rows) :
               WrongLength(i) =>
                   blob_to_embedding(s_rows[i].embedding, s_rows[i].embedding_dim)
                       = [k \in 1..s_rows[i].embedding_dim |-> 0]

\* --------------------------------------------------------------- SpecAnswer
\* GemmaRAGSystem.answer_question over a store, a file_filter and a
\* conversation_history. An entry of conversation_history is the set of keys of
\* its dict.
HistoryEntries == {{"question", "answer"}, {"question"}}

\* LastThree taking the first three entries: conversation_history[:3]
FirstThree(h) == [k \in 1..Min(3, Len(h)) |-> k]

\* conversation_history[-3:], as positions of conversation_history
LastThree(h) == [k \in 1..Min(3, Len(h)) |-> Len(h) - Min(3, Len(h)) + k]

\* lines 129-136, outside the try: qa['question'] and qa['answer'] raise KeyError on
\* an entry without the key
PrepareConversation ==
    /\ a_pc = "history"
    /\ LET last == LastThree(a_history)
       IN  IF \E k \in 1..Len(last) : ~({"question", "answer"} \subseteq a_history[last[k]])
           THEN /\ a_raised' = TRUE
                /\ a_pc' = "done"
                /\ a_conv' = a_conv
           ELSE /\ a_raised' = FALSE
                /\ a_pc' = "search"
                /\ a_conv' = IF a_history = <<>> THEN NoConversation
                             ELSE [pairs |-> last, current |-> TRUE]
    /\ UNCHANGED <<a_history, a_set, a_context, a_gen_calls, a_gen_failed, a_prompt, a_result,
                   ingestVars, chunkVars, searchVars>>

\* self.searcher.search(question, top_k=config.TOP_K_RETRIEVAL, file_filter=file_filter)
AnswerSearch(common) ==
    /\ a_pc = "search"
    /\ SearchCall(common)
    /\ a_pc' = "searched"
    /\ UNCHANGED <<a_history, a_conv, a_set, a_context, a_gen_calls, a_gen_failed, a_prompt, a_result,
                   a_raised>>

\* the search raises before it scores a row: encode_single (the embedding
\* provider), sqlite3.connect or the SELECT (the store)
AnswerSearchFails ==
    /\ a_pc = "search"
    /\ s_pc = "call"
    /\ s_raised' = TRUE
    /\ s_out' = <<>>
    /\ s_pc' = "done"
    /\ a_pc' = "searched"
    /\ UNCHANGED <<s_rows, s_query, s_top_k, s_filter, s_common, ingestVars, chunkVars,
                   a_history, a_conv, a_set, a_context, a_gen_calls, a_gen_failed, a_prompt, a_result,
                   a_raised>>

\* the keys of the dict answer_question returns
ResultKeys == {"question", "answer", "sources_found", "search_results", "timestamp"}

\* ErrorResult counting a source
ErrorResultWithSource ==
    [answer |-> "error_processing", sources_found |-> 1, search_results |-> <<>>,
     keys |-> ResultKeys]

\* the dict of the `except Exception` handler
ErrorResult ==
    [answer |-> "error_processing", sources_found |-> 0, search_results |-> <<>>,
     keys |-> ResultKeys]

\* `except Exception as e` around the search and all that follows it
AnswerHandleError ==
    /\ a_pc = "searched"
    /\ s_raised
    /\ a_result' = ErrorResult
    /\ a_pc' = "done"
    /\ UNCHANGED <<a_history, a_conv, a_set, a_context, a_gen_calls, a_gen_failed, a_prompt, a_raised,
                   ingestVars, chunkVars, searchVars>>

\* set(search_results), and the orders in which iterating the set can yield its
\* members: the order follows the hashes of the tuples, not the list
ToSet(items) == {items[i] : i \in 1..Len(items)}
IterationOrders(S) ==
    {f \in [1..Cardinality(S) -> S] : \A i, j \in 1..Cardinality(S) : i # j => f[i] # f[j]}

\* Meaningful without the threshold: every member is kept
MeaningfulAlways(sim) == TRUE

\* `if similarity > 0.1` of the context loop; similarities are in hundredths
Meaningful(sim) == sim > 10

\* `if similarity > 0.1` of the search_results comprehension
Listed(sim) == sim > 10

\* context_parts: for each member kept, its header "[From file_name (confidence:
\* similarity)]", its chunk and "" (one item here). "\n".join of no part is "".
ContextParts(ord) == SelectSeq(ord, LAMBDA r : Meaningful(r.sim))

\* the list under "search_results"
SearchResultsOf(ord) ==
    LET kept == SelectSeq(ord, LAMBDA r : Listed(r.sim))
    IN  [k \in 1..Len(kept) |->
            [file |-> kept[k].file_name, confidence |-> kept[k].sim,
             content_preview |-> kept[k].chunk]]

\* lines 142-166: the set, the context built from it
BuildContext ==
    /\ a_pc = "searched"
    /\ ~s_raised
    /\ \E ord \in IterationOrders(ToSet(s_out)) :
           /\ a_set' = ord
           /\ a_context' = ContextParts(ord)
    /\ a_pc' = "generate"
    /\ UNCHANGED <<a_history, a_conv, a_gen_calls, a_gen_failed, a_prompt, a_result, a_raised,
                   ingestVars, chunkVars, searchVars>>

\* generate_answer, lines 50-68: the prompt. conversation_context, when there is
\* one, goes before the context; when either is non-blank the knowledge-base
\* template is filled with them, and that template has no slot for the question;
\* otherwise the template "Answer the following question: QUESTION: {question}".
Prompt(context, conversation_context) ==
    IF conversation_context # NoConversation \/ context # <<>>
    THEN [template |-> "knowledge_base", conversation |-> conversation_context,
          context |-> context]
    ELSE [template |-> "question_only", conversation |-> NoConversation, context |-> <<>>]

\* generate_answer that lets the failure of generate_content through
generate_answer_uncaught(failed) == [raised |-> failed, text |-> "generated"]

\* GemmaAnswerGenerator.generate_answer: `except Exception` around generate_content
\* returns "Error generating answer: ..."
generate_answer(failed) ==
    [raised |-> FALSE, text |-> IF failed THEN "error_generating" ELSE "generated"]

\* lines 168-188: the answer is generated and the dict is built; an exception of
\* generate_answer would reach the handler of line 190
Generate ==
    /\ a_pc = "generate"
    /\ a_gen_calls' = a_gen_calls + 1
    /\ a_prompt' = Prompt(a_context, a_conv)
    /\ \E failed \in BOOLEAN :
           /\ a_gen_failed' = failed
           /\ a_result' = IF generate_answer(failed).raised THEN ErrorResult
                          ELSE [answer |-> generate_answer(failed).text,
                                sources_found |-> Len(a_set),
                                search_results |-> SearchResultsOf(a_set),
                                keys |-> ResultKeys]
    /\ a_pc' = "done"
    /\ UNCHANGED <<a_history, a_conv, a_set, a_context, a_raised,
                   ingestVars, chunkVars, searchVars>>

\* The stores: a 4-byte blob next to the blobs of four embeddings, whose
\* similarities to the query <<-28, 45>> are 0.08, 0.52, 0.84 and -0.53.
AnswerBlobs ==
    {[bytes |-> 8, floats |-> e] : e \in {<<4, 3>>, <<-1, 0>>, <<0, 1>>, <<1, 0>>}}
    \cup {[bytes |-> 4, floats |-> <<1>>]}
AnswerRowSeqs ==
    UNION {[1..n -> [file_name : StoredNames, embedding : AnswerBlobs]] : n \in 0..MaxAnswerRows}
Histories == UNION {[1..n -> HistoryEntries] : n \in 0..MaxHistory}

InitAnswer ==
    /\ fs = [p \in Paths |-> <<>>]
    /\ IngestIdle
    /\ ChunkOff
    /\ ConnOff
    /\ LoadOff
    /\ RaceOff
    /\ \E rs \in AnswerRowSeqs : s_rows = WithContentAndDim(rs)
    /\ s_query = <<-28, 45>>
    /\ s_top_k = TOP_K_RETRIEVAL
    /\ s_filter \in {[kind |-> "none", names |-> <<>>], [kind |-> "list", names |-> <<"a.md">>]}
    /\ s_common = {}
    /\ s_out = <<>>
    /\ s_raised = FALSE
    /\ s_pc = "call"
    /\ a_pc = "history"
    /\ a_history \in Histories
    /\ a_conv = NoConversation
    /\ a_set = <<>> /\ a_context = <<>> /\ a_gen_calls = 0 /\ a_gen_failed = FALSE
    /\ a_prompt = NoPrompt /\ a_result = NoResult /\ a_raised = FALSE

NextAnswer ==
    \/ PrepareConversation /\ UNCHANGED <<connVars, loadVars, raceVars>>
    \/ \E common \in SUBSET StoredNames : AnswerSearch(common) /\ UNCHANGED <<connVars, loadVars, raceVars>>
    \/ AnswerSearchFails /\ UNCHANGED <<connVars, loadVars, raceVars>>
    \/ AnswerHandleError /\ UNCHANGED <<connVars, loadVars, raceVars>>
    \/ BuildContext /\ UNCHANGED <<connVars, loadVars, raceVars>>
    \/ Generate /\ UNCHANGED <<connVars, loadVars, raceVars>>

SpecAnswer == InitAnswer /\ [][NextAnswer]_vars

\* answer_question returned the dict of its normal path
AnsweredNormally == a_pc = "done" /\ ~a_raised /\ ~s_raised

\* C14: every result the searcher returned is listed in search_results of the dict
\* returned, whatever its similarity (a result of similarity 0.08 too).
C14_SourcesNotGated ==
    AnsweredNormally =>
        \A i \in 1..Len(s_out) :
            \E k \in 1..Len(a_result.search_results) :
                /\ a_result.search_results[k].file = s_out[i].file_name
                /\ a_result.search_results[k].confidence = s_out[i].sim

\* C15: the context given to the generator holds a chunk exactly when the searcher
\* returned it with a similarity above 0.1, each such chunk once; when none is above
\* (or nothing was returned) the context is empty; the generator is called once.
C15_ContextGatedByThreshold ==
    /\ (a_pc = "generate" \/ AnsweredNormally) =>
           /\ ToSet(a_context) = {r \in ToSet(s_out) : r.sim > 10}
           /\ Len(a_context) = Cardinality(ToSet(a_context))
           /\ (\A i \in 1..Len(s_out) : s_out[i].sim <= 10) => a_context = <<>>
    /\ a_pc = "generate" => a_gen_calls = 0
    /\ AnsweredNormally => a_gen_calls = 1

\* of two results one is above the threshold and in the context, the other (0.08
\* or a 0 of a file without a positive chunk) is left out; the generator has run
C15_Witness ==
    /\ AnsweredNormally
    /\ Len(s_out) = 2
    /\ Len(a_context) = 1
    /\ \E i \in 1..2 : s_out[i].sim = 8

\* C16: search_results of the dict returned is in non-increasing order of confidence.
C16_SourcesRanked ==
    AnsweredNormally =>
        \A i, j \in 1..Len(a_result.search_results) :
            i < j => a_result.search_results[i].confidence
                         >= a_result.search_results[j].confidence

\* C18: when the search raises (a wrong-length blob included), answer_question raises
\* nothing and returns a dict with the keys answer, sources_found, search_results
\* and timestamp, whose answer tells the error, with 0 sources and no search result.
C18_SearchFailureInline ==
    (a_pc = "done" /\ s_raised) =>
        /\ ~a_raised
        /\ {"answer", "sources_found", "search_results", "timestamp"} \subseteq a_result.keys
        /\ a_result.answer = "error_processing"
        /\ a_result.sources_found = 0
        /\ a_result.search_results = <<>>

\* np.dot raised on a stored blob during a call that came with a history
C18_Witness ==
    /\ a_pc = "done" /\ s_raised
    /\ DotRaises(s_rows, s_query)
    /\ Len(a_history) >= 1
    /\ s_filter.kind = "list"

\* C19: when generate_content raises, answer_question raises nothing, answer tells the
\* error, sources_found is the number of results of the search before, every entry
\* of search_results is a result of that search, and every result above 0.1 is there.
C19_GeneratorFailureInline ==
    (a_pc = "done" /\ a_gen_failed) =>
        /\ ~a_raised
        /\ a_result.answer = "error_generating"
        /\ a_result.sources_found = Len(s_out)
        /\ \A k \in 1..Len(a_result.search_results) :
               \E i \in 1..Len(s_out) :
                   /\ a_result.search_results[k].file = s_out[i].file_name
                   /\ a_result.search_results[k].confidence = s_out[i].sim
                   /\ a_result.search_results[k].content_preview = s_out[i].chunk
        /\ \A i \in 1..Len(s_out) :
               s_out[i].sim > 10 =>
                   \E k \in 1..Len(a_result.search_results) :
                       a_result.search_results[k].file = s_out[i].file_name

\* the generator failed after a search that found two files above the threshold
C19_Witness ==
    /\ a_pc = "done" /\ a_gen_failed
    /\ a_result.sources_found = 2
    /\ Len(a_result.search_results) = 2

\* nothing raised; an empty store gave the empty list, and so did a file_filter
\* (list, name or "*") that no stored file name matches
EmptyAsClaimed ==
    /\ ~s_raised
    /\ s_rows = <<>> => s_out = <<>>
    /\ (s_filter.kind # "none" /\ \A f \in StoredFileNames : ~Survives(f)) => s_out = <<>>

\* C20: search on a store without chunks returns the empty list, and so does search
\* with a file_filter (list, name or "*") that no stored file name matches; neither
\* raises.
C20_EmptyOutcomes == s_pc = "done" => EmptyAsClaimed

\* C20 for the filters that `if file_filter:` takes as given (every one but the
\* empty list).
C20_EmptyOutcomesFilterGiven ==
    (s_pc = "done" /\ (Truthy(s_filter) \/ s_filter.kind = "none")) => EmptyAsClaimed

\* ----------------------------------------------------------------- SpecConn
\* The store connection of SemanticSearcher.search, load_markdown_to_db and
\* get_statistics: each opens one with sqlite3.connect and runs the statements
\* below, none inside try/finally or a with block. The file loop of
\* load_markdown_to_db catches what its statements raise; it is skipped when
\* fetch_markdown_files finds no file.
Operations == {"search", "load_markdown_to_db", "get_statistics"}
Statements(op) ==
    CASE op = "search"              -> <<"encode_single", "select", "close">>
      [] op = "load_markdown_to_db" -> <<"fetch_markdown_files", "file_loop", "close">>
      [] op = "get_statistics"      -> <<"count_documents", "count_chunks",
                                         "sum_chunk_count", "close">>

\* the statements out of which an exception leaves the operation
CanRaise(st) == st \notin {"file_loop", "close"}

\* conn = sqlite3.connect(...)
ConnCall(op) ==
    /\ k_op = "none"
    /\ k_calls < MaxCalls
    /\ k_calls' = k_calls + 1
    /\ k_op' = op
    /\ k_at' = 1
    /\ k_open' = k_open + 1
    /\ k_exit' = "none"

\* the next statement before conn.close() runs, or raises and the exception leaves
\* the operation with nothing on its way
ConnStatement ==
    /\ k_op # "none"
    /\ Statements(k_op)[k_at] # "close"
    /\ \/ /\ k_at' \in IF Statements(k_op)[k_at] = "fetch_markdown_files"
                        THEN {k_at + 1, k_at + 2} ELSE {k_at + 1}
          /\ UNCHANGED <<k_op, k_open, k_exit, k_calls>>
       \/ /\ CanRaise(Statements(k_op)[k_at])
          /\ k_op' = "none"
          /\ k_at' = 0
          /\ k_exit' = "raised"
          /\ UNCHANGED <<k_open, k_calls>>

\* conn.close(), and the return
ConnClose ==
    /\ k_op # "none"
    /\ Statements(k_op)[k_at] = "close"
    /\ k_open' = k_open - 1
    /\ k_op' = "none"
    /\ k_at' = 0
    /\ k_exit' = "returned"
    /\ UNCHANGED k_calls

\* the interpreter frees a Connection object that no frame refers to any more,
\* which closes it
CollectGarbage ==
    /\ k_op = "none"
    /\ k_open > 0
    /\ k_open' = k_open - 1
    /\ UNCHANGED <<k_op, k_at, k_exit, k_calls>>

InitConn ==
    /\ fs = [p \in Paths |-> <<>>]
    /\ IngestIdle
    /\ ChunkOff
    /\ SearchOff
    /\ AnswerOff
    /\ ConnOff
    /\ LoadOff
    /\ RaceOff

NextConn ==
    \/ \E op \in Operations : ConnCall(op) /\ UNCHANGED <<ingestVars, chunkVars, searchVars, answerVars, loadVars, raceVars>>
    \/ ConnStatement /\ UNCHANGED <<ingestVars, chunkVars, searchVars, answerVars, loadVars, raceVars>>
    \/ ConnClose /\ UNCHANGED <<ingestVars, chunkVars, searchVars, answerVars, loadVars, raceVars>>
    \/ CollectGarbage /\ UNCHANGED <<ingestVars, chunkVars, searchVars, answerVars, loadVars, raceVars>>

SpecConn == InitConn /\ [][NextConn]_vars

\* C17: whenever control has left search, load_markdown_to_db or get_statistics, by
\* return or by exception, the connection the operation opened is closed: none is
\* open while no operation runs.
C17_ConnectionReleased ==
    (k_op = "none" /\ k_exit # "none") => k_open = 0

\* C17 for a first operation that leaves by return: its connection is closed.
C17_ConnectionReleasedOnReturn ==
    (k_op = "none" /\ k_exit = "returned" /\ k_calls = 1) => k_open = 0

\* C21: for a history of n >= 1 question/answer pairs the conversation block holds
\* min(3, n) pairs, the last ones of the history in their order (the k-th pair of the
\* block, numbered k, is entry n - min(3, n) + k), and it ends with the current
\* question; for an empty history the block is empty.
C21_BoundedConversation ==
    (a_pc \notin {"off", "history"} /\ ~a_raised) =>
        LET n == Len(a_history)
            m == IF n < 3 THEN n ELSE 3
        IN  IF n = 0 THEN a_conv.pairs = <<>> /\ ~a_conv.current
            ELSE /\ Len(a_conv.pairs) = m
                 /\ a_conv.pairs[m] = n
                 /\ \A k \in 1..(m - 1) : a_conv.pairs[k + 1] = a_conv.pairs[k] + 1
                 /\ a_conv.current

\* a history of more than three pairs: the block leaves the oldest out
C21_Witness ==
    /\ a_pc = "done" /\ ~a_raised
    /\ Len(a_history) > 3
    /\ a_conv.pairs = <<Len(a_history) - 2, Len(a_history) - 1, Len(a_history)>>

\* the text of prompt p holds the current question: the question-only template
\* interpolates it, the conversation block ends with it
PromptHoldsQuestion(p) == p.template = "question_only" \/ p.conversation.current

\* C26: the prompt generate_answer sends holds the current question, with or without
\* retrieved context, with or without conversation history.
C26_PromptHoldsQuestion ==
    a_gen_calls >= 1 => PromptHoldsQuestion(a_prompt)

\* C26 without the case of a retrieved context and no history.
C26_PromptHoldsQuestionOtherCases ==
    (a_gen_calls >= 1 /\ ~(a_context # <<>> /\ a_history = <<>>)) =>
        PromptHoldsQuestion(a_prompt)

\* C28: in every dict answer_question returns, on the normal path and on the error
\* path, sources_found is the number of entries of search_results.
C28_SourcesFoundIsListLength ==
    (a_pc = "done" /\ ~a_raised) =>
        a_result.sources_found = Len(a_result.search_results)

\* C28 when every result of the search is above 0.1, and on the error path.
C28_SourcesFoundIsListLengthAboveThreshold ==
    (a_pc = "done" /\ ~a_raised /\ \A i \in 1..Len(s_out) : s_out[i].sim > 10) =>
        a_result.sources_found = Len(a_result.search_results)

\* ------------------------------------------------- more of chunk_text
\* C23: for W >= 1 words and chunk_size >= 2, the last chunk is the only one that
\* holds word W-1, and every chunk after the first ends beyond the end of the chunk
\* before it (it holds a word that chunk does not hold).
C23_NoRedundantTail ==
    (c_pc = "done" /\ c_words >= 1 /\ c_size >= 2) =>
        LET cs == c_out.chunks
            n  == Len(cs)
        IN  /\ {k \in 1..n : cs[k][1] <= c_words - 1 /\ c_words - 1 < cs[k][2]} = {n}
            /\ \A k \in 1..(n - 1) : cs[k + 1][2] > cs[k][2]

\* a window that ends on the last word while the next start index is still inside
\* the text: the loop stops there
C23_Witness ==
    /\ c_pc = "done" /\ c_size >= 2
    /\ Len(c_out.chunks) >= 2
    /\ c_out.chunks[Len(c_out.chunks)][2] = c_words
    /\ c_out.chunks[Len(c_out.chunks)][1] + ChunkStep(c_size) < c_words

\* C30: for every text and every chunk_size >= 1, chunk_text raises nothing and
\* returns a list that is not empty.
C30_ChunkTextReturns ==
    c_pc = "done" => ~c_out.raised /\ c_out.chunks # <<>>

\* C30 for chunk_size >= 2: the step is at least 1 and the call returns chunks.
C30_ChunkTextReturnsFromTwo ==
    (c_pc = "done" /\ c_size >= 2) =>
        ChunkStep(c_size) >= 1 /\ ~c_out.raised /\ c_out.chunks # <<>>

\* ------------------------------------------------ the store after the calls
\* get_statistics: SELECT SUM(chunk_count) FROM documents
RECURSIVE SumChunkCount(_)
SumChunkCount(docs) ==
    IF docs = {} THEN 0
    ELSE LET d == CHOOSE x \in docs : TRUE
         IN  d.chunk_count + SumChunkCount(docs \ {d})

\* get_statistics: "total_chunks" is SELECT COUNT(*) FROM chunks
total_chunks == Cardinality(chunks)

\* the rows of `FROM chunks c JOIN documents d ON c.doc_id = d.id`, the chunks
\* search can return
Searchable == {c \in chunks : \E d \in documents : d.id = c.doc_id}

\* C25: whenever a call has returned, the chunk rows are as many as the sum of
\* chunk_count, every document row owns its chunk_count chunk rows indexed
\* 0..chunk_count-1, and total_chunks is the number of chunks search can return.
C25_StoreCountConsistency ==
    Returned =>
        /\ Cardinality(chunks) = SumChunkCount(documents)
        /\ \A d \in documents : Complete(d, chunks)
        /\ total_chunks = Cardinality(Searchable)

\* C25 for calls with overwrite_existing=False on a store that only such calls
\* without a failure have written.
C25_StoreCountConsistencyPlainRuns ==
    (Returned /\ ~overwrite /\ nfaults = 0 /\ (runs = 1 \/ lastRun = "plain")) =>
        /\ Cardinality(chunks) = SumChunkCount(documents)
        /\ \A d \in documents : Complete(d, chunks)
        /\ total_chunks = Cardinality(Searchable)

\* the markdown files under the docs root that are not blank
NonEmptyFiles == {p \in Paths : fs[p] # <<>> /\ fs[p] # <<0>>}

\* C27: when a call with overwrite_existing=True has returned without a per-file
\* failure, the file paths of documents are the non-blank markdown files under the
\* docs root: no row of a removed or blanked file is left.
C27_StoreMirrorsCorpus ==
    (Returned /\ overwrite /\ nfaults = 0 /\ \A p \in Paths : outcome[p] # "failed") =>
        {d.file_path : d \in documents} = NonEmptyFiles

\* C27, one direction: every non-blank markdown file under the docs root has a row.
C27_EveryFileStored ==
    (Returned /\ overwrite /\ nfaults = 0 /\ \A p \in Paths : outcome[p] # "failed") =>
        NonEmptyFiles \subseteq {d.file_path : d \in documents}


\* ---------------------------------------------------------------- SpecNames
\* search on a store whose documents lie in several folders. A file path is the
\* sequence of its components; fetch_markdown_files walks the docs root, so two
\* documents may share their last component.
MaxNameRows == 3
StoredPaths == {<<"docs", "a.md">>, <<"docs", "common", "a.md">>, <<"docs", "common", "b.md">>}
NameEmbeddings == {<<4, 3>>, <<1, 0>>, <<-1, 0>>}

\* os.path.basename(file_path), the file_name column of a document row
basename(path) == path[Len(path)]

\* the path lies under os.path.join("docs", "common")
UnderCommon(path) == Len(path) >= 3 /\ path[1] = "docs" /\ path[2] = "common"

\* _get_common_folder_files: the names of the .md files os.walk finds under
\* docs/common, the files being those the documents were read from
get_common_folder_files(paths) == {basename(p) : p \in {q \in paths : UnderCommon(q)}}

\* the rows of the JOIN, each with the file_path of its document
PathRowSeqs ==
    UNION {[1..n -> [file_path : StoredPaths, embedding : NameEmbeddings]] : n \in 0..MaxNameRows}
WithContentAndName(rs) ==
    [i \in 1..Len(rs) |->
        [chunk_content |-> <<i>>, file_path |-> rs[i].file_path,
         file_name |-> basename(rs[i].file_path),
         embedding |-> [bytes |-> 4 * Len(rs[i].embedding), floats |-> rs[i].embedding],
         embedding_dim |-> Len(rs[i].embedding)]]

\* the file paths of the stored documents
StoredDocPaths == {s_rows[i].file_path : i \in 1..Len(s_rows)}

InitNames ==
    /\ fs = [p \in Paths |-> <<>>]
    /\ IngestIdle
    /\ ChunkOff
    /\ AnswerOff
    /\ ConnOff
    /\ LoadOff
    /\ RaceOff
    /\ \E rs \in PathRowSeqs : s_rows = WithContentAndName(rs)
    /\ s_query \in Queries
    /\ s_top_k \in 0..MaxTopK
    /\ s_filter \in {[kind |-> "none", names |-> <<>>], [kind |-> "wildcard", names |-> <<>>],
                     [kind |-> "scalar", names |-> <<"a.md">>],
                     [kind |-> "list", names |-> <<"a.md">>]}
    /\ s_common = {}
    /\ s_out = <<>>
    /\ s_raised = FALSE
    /\ s_pc = "call"

NextNames ==
    SearchCall(get_common_folder_files(StoredDocPaths)) /\ UNCHANGED <<answerVars, connVars, loadVars, raceVars>>

SpecNames == InitNames /\ [][NextNames]_vars

\* the returned items that are a stored chunk (not the '' of an untouched default)
ReturnedRows == {s_out[k].chunk[1] : k \in {j \in 1..Len(s_out) : s_out[j].chunk # <<>>}}

\* every document is a retrieval unit of its own: an unfiltered search fills
\* min(top_k, number of documents) slots, and the wildcard filter returns chunks of
\* documents under docs/common only
SeparateUnits ==
    /\ s_filter.kind = "none" =>
           Len(s_out) = Min(s_top_k, Cardinality(StoredDocPaths))
    /\ s_filter.kind = "wildcard" =>
           \A i \in ReturnedRows : UnderCommon(s_rows[i].file_path)

\* C29: two documents of different file paths and the same base file name are
\* separate retrieval units, each with a slot of its own in the result, and the
\* wildcard filter never returns a chunk of a document outside docs/common.
C29_SameNameSeparateUnits ==
    (s_pc = "done" /\ ~s_raised) => SeparateUnits

\* C29 on stores whose documents all have different base file names: there the
\* documents are separate units and the wildcard filter keeps to docs/common.
C29_DistinctNamesSeparateUnits ==
    (s_pc = "done" /\ ~s_raised
        /\ \A p, q \in StoredDocPaths : basename(p) = basename(q) => p = q)
    => SeparateUnits


\* ----------------------------------------------------------------- SpecLoad
\* EmbeddingManager.load_model, called by __init__ after embedder and
\* embedding_dim were set to None, on a machine whose accelerator config.get_device
\* has probed.
MaxDim == 3
Envs == [torch : BOOLEAN, cuda : BOOLEAN, probe : BOOLEAN]

\* config.get_device: "cuda" when torch imports, reports a CUDA device and a
\* tensor can be put on it; "cpu" otherwise and on any exception
get_device(env) == IF env.torch /\ env.cuda /\ env.probe THEN "cuda" ELSE "cpu"

\* config.DEVICE
DEVICE == get_device(l_env)

\* SentenceTransformer(config.EMBEDDING_MODEL, device=device)
SentenceTransformer(device) == [device |-> device, dim |-> l_dim]

\* embedder.encode(texts, convert_to_numpy=True): one row of dim columns per text
encode(embedder, texts) == [i \in 1..Len(texts) |-> [k \in 1..embedder.dim |-> 0]]

\* ndarray.shape of a matrix given row by row
shape(matrix) == <<Len(matrix), IF matrix = <<>> THEN 0 ELSE Len(matrix[1])>>

\* load_model falling back whatever the primary device is
FallsBackAlways(device) == TRUE

\* `if config.DEVICE == "cuda":` in the handler of the primary try block
FallsBack(device) == device = "cuda"

\* the primary try block is entered; the imports and the patch of
\* requests.Session.request go through (ok) or raise
LoadImports(ok) ==
    /\ l_pc = "try"
    /\ l_attempts' = Append(l_attempts, DEVICE)
    /\ l_pc' = IF ok THEN "construct" ELSE "except"
    /\ UNCHANGED <<l_env, l_dim, l_embedder, l_embedding_dim, l_raised>>

\* self.embedder = SentenceTransformer(config.EMBEDDING_MODEL, device=config.DEVICE)
LoadConstruct(ok) ==
    /\ l_pc = "construct"
    /\ l_embedder' = IF ok THEN SentenceTransformer(DEVICE) ELSE l_embedder
    /\ l_pc' = IF ok THEN "encode" ELSE "except"
    /\ UNCHANGED <<l_env, l_dim, l_embedding_dim, l_attempts, l_raised>>

\* the sample is encoded and embedding_dim is read off its shape
LoadEncode(ok) ==
    /\ l_pc = "encode"
    /\ l_embedding_dim' = IF ok THEN shape(encode(l_embedder, <<"test">>))[2]
                          ELSE l_embedding_dim
    /\ l_pc' = IF ok THEN "done" ELSE "except"
    /\ UNCHANGED <<l_env, l_dim, l_embedder, l_attempts, l_raised>>

\* except Exception: the inner try block is entered on "cuda", the exception is
\* raised again otherwise
LoadHandler ==
    /\ l_pc = "except"
    /\ IF FallsBack(DEVICE)
       THEN /\ l_attempts' = Append(l_attempts, "cpu")
            /\ l_pc' = "fallback_construct"
            /\ UNCHANGED l_raised
       ELSE /\ l_raised' = TRUE
            /\ l_pc' = "done"
            /\ UNCHANGED l_attempts
    /\ UNCHANGED <<l_env, l_dim, l_embedder, l_embedding_dim>>

\* self.embedder = SentenceTransformer(config.EMBEDDING_MODEL, device="cpu");
\* a failure is raised as e2
LoadFallbackConstruct(ok) ==
    /\ l_pc = "fallback_construct"
    /\ l_embedder' = IF ok THEN SentenceTransformer("cpu") ELSE l_embedder
    /\ l_pc' = IF ok THEN "fallback_encode" ELSE "done"
    /\ l_raised' = ~ok
    /\ UNCHANGED <<l_env, l_dim, l_embedding_dim, l_attempts>>

\* the sample is encoded on the CPU model; a failure is raised as e2
LoadFallbackEncode(ok) ==
    /\ l_pc = "fallback_encode"
    /\ l_embedding_dim' = IF ok THEN shape(encode(l_embedder, <<"test">>))[2]
                          ELSE l_embedding_dim
    /\ l_pc' = "done"
    /\ l_raised' = ~ok
    /\ UNCHANGED <<l_env, l_dim, l_embedder, l_attempts>>

InitLoad ==
    /\ fs = [p \in Paths |-> <<>>]
    /\ IngestIdle
    /\ ChunkOff
    /\ SearchOff
    /\ AnswerOff
    /\ ConnOff
    /\ RaceOff
    /\ l_pc = "try"
    /\ l_env \in Envs
    /\ l_dim \in 1..MaxDim
    /\ l_embedder = None
    /\ l_embedding_dim = 0
    /\ l_attempts = <<>>
    /\ l_raised = FALSE

loadOthers == <<ingestVars, chunkVars, searchVars, answerVars, connVars, raceVars>>

NextLoad ==
    \/ \E ok \in BOOLEAN : LoadImports(ok) /\ UNCHANGED loadOthers
    \/ \E ok \in BOOLEAN : LoadConstruct(ok) /\ UNCHANGED loadOthers
    \/ \E ok \in BOOLEAN : LoadEncode(ok) /\ UNCHANGED loadOthers
    \/ LoadHandler /\ UNCHANGED loadOthers
    \/ \E ok \in BOOLEAN : LoadFallbackConstruct(ok) /\ UNCHANGED loadOthers
    \/ \E ok \in BOOLEAN : LoadFallbackEncode(ok) /\ UNCHANGED loadOthers

SpecLoad == InitLoad /\ [][NextLoad]_vars

\* what holds of the attempts and of a normal return on either reading of C22
LoadAttemptsAndReturn ==
    /\ Len(l_attempts) >= 1 => l_attempts[1] = DEVICE
    /\ Len(l_attempts) <= 2
    /\ Len(l_attempts) = 2 => l_attempts[2] = "cpu"
    /\ (l_pc = "done" /\ ~l_raised) =>
           /\ l_embedder # None
           /\ l_embedder.device = l_attempts[Len(l_attempts)]
           /\ l_embedding_dim = l_dim

\* C22 as stated: load_model attempts the configured device first, attempts the CPU
\* once if that fails, raises only when both attempts have failed, never attempts a
\* third time, and on a normal return embedder is set and embedding_dim is the
\* output dimension of the loaded model.
C22_SingleFallback ==
    /\ LoadAttemptsAndReturn
    /\ (l_pc = "done" /\ l_raised) => Len(l_attempts) = 2

\* C22, amended: the CPU is attempted after a failure on "cuda" only. With "cpu"
\* configured the failure of the one attempt is raised; with "cuda" configured
\* load_model raises only when the attempts on "cuda" and on "cpu" have both failed.
C22_SingleFallbackFromCuda ==
    /\ LoadAttemptsAndReturn
    /\ Len(l_attempts) = 2 => DEVICE = "cuda"
    /\ (l_pc = "done" /\ l_raised) =>
           l_attempts = IF DEVICE = "cuda" THEN <<"cuda", "cpu">> ELSE <<"cpu">>

\* a load that failed on "cuda" and returned with the CPU model
C22_Witness ==
    /\ l_pc = "done" /\ ~l_raised
    /\ l_attempts = <<"cuda", "cpu">>
    /\ l_embedder.device = "cpu"
    /\ l_embedding_dim = l_dim /\ l_dim > 1


\* ----------------------------------------------------------------- SpecRace
\* Two processes run load_markdown_to_db over the same files against the same
\* store file, each on a connection of its own. sqlite3 opens a transaction before
\* the first DELETE or INSERT of a connection and keeps it until commit or close;
\* the store file has one write lock, taken by the first write of a transaction,
\* and a commit waits for the read transactions of the other connections. A
\* statement that cannot get its lock in time raises OperationalError.
NumRaceFiles == 2
Procs == {1, 2}                   \* the two processes
RaceFiles == 1..NumRaceFiles        \* md_files, the same sorted list in every process
NoTx == [open |-> FALSE, shared |-> FALSE, deleted |-> {}, inserted |-> {}]

\* the rows of documents a statement of process p sees
RaceView(p) == {d \in r_docs : d.id \notin r_tx[p].deleted} \cup r_tx[p].inserted

\* another connection holds the write lock
WriteLocked(p) == r_lock \notin {0, p}

\* another connection is inside a read transaction
ReadBy(p) == \E q \in Procs \ {p} : r_tx[q].shared

\* the UNIQUE constraint left out: no path is ever taken
PathTakenNever(view, path) == FALSE

\* file_path TEXT UNIQUE NOT NULL: a row of the path is in the table
PathTaken(view, path) == \E d \in view : d.file_path = path

\* the next position of the for loop
RaceAdvance(p) ==
    /\ r_idx' = [r_idx EXCEPT ![p] = r_idx[p] + 1]
    /\ r_pc' = [r_pc EXCEPT ![p] = IF r_idx[p] + 1 > NumRaceFiles THEN "close" ELSE "select"]

\* except Exception as e: the error is printed and the loop goes on
RaceCaught(p, err) ==
    /\ r_outcome' = [r_outcome EXCEPT ![p][r_idx[p]] = "failed"]
    /\ r_error' = [r_error EXCEPT ![p][r_idx[p]] = err]
    /\ RaceAdvance(p)

\* SELECT id FROM documents WHERE file_path = ?; an existing file is skipped
\* unless overwrite_existing
RaceSelect(p, busy) ==
    /\ r_pc[p] = "select"
    /\ busy => WriteLocked(p)
    /\ IF busy
       THEN /\ RaceCaught(p, "OperationalError")
            /\ UNCHANGED <<r_existing, r_tx>>
       ELSE LET found == {d \in RaceView(p) : d.file_path = r_idx[p]}
                id    == IF found = {} THEN 0 ELSE (CHOOSE d \in found : TRUE).id
            IN  /\ r_existing' = [r_existing EXCEPT ![p] = id]
                /\ r_tx' = [r_tx EXCEPT ![p].shared = r_tx[p].open]
                /\ IF id # 0 /\ ~r_overwrite[p]
                   THEN /\ r_outcome' = [r_outcome EXCEPT ![p][r_idx[p]] = "skipped"]
                        /\ RaceAdvance(p)
                   ELSE /\ r_pc' = [r_pc EXCEPT ![p] = IF id # 0 THEN "delete" ELSE "insert"]
                        /\ UNCHANGED <<r_idx, r_outcome>>
                /\ UNCHANGED r_error
    /\ UNCHANGED <<r_overwrite, r_docs, r_lock, r_seq>>

\* DELETE FROM documents WHERE id = ?
RaceDelete(p) ==
    /\ r_pc[p] = "delete"
    /\ IF WriteLocked(p)
       THEN /\ RaceCaught(p, "OperationalError")
            /\ r_tx' = [r_tx EXCEPT ![p].open = TRUE]
            /\ UNCHANGED r_lock
       ELSE /\ r_lock' = p
            /\ r_tx' = [r_tx EXCEPT ![p].open = TRUE,
                                    ![p].deleted = @ \cup {r_existing[p]},
                                    ![p].inserted = {d \in @ : d.id # r_existing[p]}]
            /\ r_pc' = [r_pc EXCEPT ![p] = "insert"]
            /\ UNCHANGED <<r_idx, r_outcome, r_error>>
    /\ UNCHANGED <<r_overwrite, r_existing, r_docs, r_seq>>

\* the file is read, chunked and encoded; INSERT INTO documents, then the INSERTs
\* of its chunks inside the same transaction
RaceInsert(p) ==
    /\ r_pc[p] = "insert"
    /\ IF WriteLocked(p)
       THEN /\ RaceCaught(p, "OperationalError")
            /\ r_tx' = [r_tx EXCEPT ![p].open = TRUE]
            /\ UNCHANGED <<r_lock, r_seq>>
       ELSE IF PathTaken(RaceView(p), r_idx[p])
       THEN /\ RaceCaught(p, "IntegrityError")
            /\ r_lock' = p
            /\ r_tx' = [r_tx EXCEPT ![p].open = TRUE]
            /\ UNCHANGED r_seq
       ELSE /\ r_lock' = p
            /\ r_seq' = r_seq + 1
            /\ r_tx' = [r_tx EXCEPT ![p].open = TRUE,
                                    ![p].inserted = @ \cup {[id |-> r_seq + 1,
                                                             file_path |-> r_idx[p],
                                                             by |-> p]}]
            /\ r_pc' = [r_pc EXCEPT ![p] = "commit"]
            /\ UNCHANGED <<r_idx, r_outcome, r_error>>
    /\ UNCHANGED <<r_overwrite, r_existing, r_docs>>

\* conn.commit()
RaceCommit(p) ==
    /\ r_pc[p] = "commit"
    /\ IF ReadBy(p)
       THEN /\ RaceCaught(p, "OperationalError")
            /\ UNCHANGED <<r_docs, r_tx, r_lock>>
       ELSE /\ r_docs' = RaceView(p)
            /\ r_tx' = [r_tx EXCEPT ![p] = NoTx]
            /\ r_lock' = 0
            /\ r_outcome' = [r_outcome EXCEPT ![p][r_idx[p]] = "stored"]
            /\ RaceAdvance(p)
            /\ UNCHANGED r_error
    /\ UNCHANGED <<r_overwrite, r_existing, r_seq>>

\* conn.close() after the loop: an open transaction is rolled back
RaceClose(p) ==
    /\ r_pc[p] = "close"
    /\ r_tx' = [r_tx EXCEPT ![p] = NoTx]
    /\ r_lock' = IF r_lock = p THEN 0 ELSE r_lock
    /\ r_pc' = [r_pc EXCEPT ![p] = "done"]
    /\ UNCHANGED <<r_idx, r_overwrite, r_existing, r_docs, r_seq, r_outcome, r_error>>

\* the store before the two calls: the files of a set, ingested one after another
RECURSIVE RowsOf(_, _)
RowsOf(files, n) ==
    IF files = {} THEN {}
    ELSE LET f == CHOOSE x \in files : \A y \in files : x <= y
         IN  {[id |-> n, file_path |-> f, by |-> 0]} \cup RowsOf(files \ {f}, n + 1)

InitRace ==
    /\ fs = [p \in Paths |-> <<>>]
    /\ IngestIdle
    /\ ChunkOff
    /\ SearchOff
    /\ AnswerOff
    /\ ConnOff
    /\ LoadOff
    /\ r_pc = [p \in Procs |-> "select"]
    /\ r_idx = [p \in Procs |-> 1]
    /\ r_overwrite \in [Procs -> BOOLEAN]
    /\ r_existing = [p \in Procs |-> 0]
    /\ \E stored \in SUBSET RaceFiles :
           /\ r_docs = RowsOf(stored, 1)
           /\ r_seq = Cardinality(stored)
    /\ r_tx = [p \in Procs |-> NoTx]
    /\ r_lock = 0
    /\ r_outcome = [p \in Procs |-> [f \in RaceFiles |-> "none"]]
    /\ r_error = [p \in Procs |-> [f \in RaceFiles |-> "none"]]

raceOthers == <<ingestVars, chunkVars, searchVars, answerVars, connVars, loadVars>>

NextRace ==
    \/ \E p \in Procs, busy \in BOOLEAN : RaceSelect(p, busy) /\ UNCHANGED raceOthers
    \/ \E p \in Procs : RaceDelete(p) /\ UNCHANGED raceOthers
    \/ \E p \in Procs : RaceInsert(p) /\ UNCHANGED raceOthers
    \/ \E p \in Procs : RaceCommit(p) /\ UNCHANGED raceOthers
    \/ \E p \in Procs : RaceClose(p) /\ UNCHANGED raceOthers

SpecRace == InitRace /\ [][NextRace]_vars

\* C24: when two processes run load_markdown_to_db on the same store and files, in
\* every interleaving of their check-exists, delete, insert and commit steps the
\* store never holds two document rows of one file_path, and the process that
\* loses the insert race gets a store error that is caught for that file: it goes on
\* to its other files and returns, and of two calls that do not overwrite at most
\* one stores the file.
C24_NoDuplicatePathUnderRace ==
    /\ \A d1, d2 \in r_docs : d1.file_path = d2.file_path => d1 = d2
    /\ \A p \in Procs :
           /\ r_pc[p] \in {"close", "done"} => \A f \in RaceFiles : r_outcome[p][f] # "none"
           /\ \A f \in RaceFiles : r_error[p][f] # "none" => r_outcome[p][f] = "failed"
    /\ \A f \in RaceFiles :
           (\A p \in Procs : r_outcome[p][f] = "stored") => \E p \in Procs : r_overwrite[p]

\* both processes found the first file missing, one stored it, the other lost the
\* INSERT on the UNIQUE constraint, stored the second file and returned
C24_Witness ==
    /\ \A p \in Procs : r_pc[p] = "done"
    /\ \E p, q \in Procs :
           /\ r_outcome[p][1] = "stored"
           /\ r_outcome[q][1] = "failed" /\ r_error[q][1] = "IntegrityError"
           /\ r_outcome[q][2] = "stored"
    /\ \A f \in RaceFiles : \E d \in r_docs : d.file_path = f
====
